---- MODULE Spec2Model ----
(***************************************************************************)
(* Model of the RGB wallet commitment descriptor (src/src/descriptor.rs)   *)
(* and of the transfer composition engine (src/src/pay.rs).                *)
(***************************************************************************)
EXTENDS Integers, Sequences, FiniteSets, TLC

VARIABLES
    descr,      \* the wallet's descriptor: [variant, tweaks]
    last,       \* the last descriptor operation: its arguments and its result
    pc,         \* "idle", "returned" once construct_psbt_rgb has returned,
                \* "signed" when a psbt is brought to transfer, then "finalized"
    stock,      \* the inventory: fungible state per contract, the interface,
                \* the outpoints its lookup of assignments fails for
    owned,      \* the outpoints the wallet owns (wallet.filter())
    collab,     \* what the collaborators answer in this run
    debug_assertions, \* whether the build checks debug_assert!
    invoices,   \* the invoices of the call
    ret,        \* the result of the call: [tag, err]
    psbt,       \* the outputs of the skeleton when the call ended
    meta,       \* PsbtMeta: [change_vout]
    sel,        \* per invoice, the seals selected, in the order they were taken
    handed,     \* the arguments construct_psbt was called with
    composed,   \* the arguments stock.compose was called with
    fin,        \* what the psbt and the inventory answer during transfer
    consumed,   \* how many fascias were consumed into the inventory
    tret,       \* the result of transfer: [tag, err]
    transfers   \* the Vec<Transfer> that transfer built

payVars == <<pc, stock, owned, collab, debug_assertions, invoices, ret, psbt, meta,
             sel, handed, composed, fin, consumed, tret, transfers>>

vars == <<descr, last, pc, stock, owned, collab, debug_assertions, invoices, ret,
          psbt, meta, sel, handed, composed, fin, consumed, tret, transfers>>

(***************************************************************************)
(* Bounds of the model.                                                    *)
(***************************************************************************)
\* derivation indexes are 0..MaxIndex
MaxIndex == 1
\* at most MaxTweaks entries are put into one tweak table
MaxTweaks == 2
\* seals (outpoints) are 1..MaxSeals, in the order of the BTreeMap
MaxSeals == 2
\* one allocation carries an amount in 1..MaxAmount
MaxAmount == 2
\* a call pays 1..MaxInvoices invoices
MaxInvoices == 2

(***************************************************************************)
(* RgbKeychain (descriptor.rs 59-88).                                      *)
(***************************************************************************)
External == 0
Internal == 1
Rgb == 9
Tapret == 10

Keychains == {External, Internal, Rgb, Tapret}

\* bp::dbc::Method / CloseMethod
Methods == {"OpretFirst", "TapretFirst"}

contains_rgb(k) == k = Rgb \/ k = Tapret

is_seal(k) == k = Rgb \/ k = Tapret

\* a mapping that puts the change of the null-data method on keychain 1
for_method_Internal(method) ==
    CASE method = "OpretFirst" -> Internal
      [] method = "TapretFirst" -> Tapret

for_method(method) ==
    CASE method = "OpretFirst" -> Rgb
      [] method = "TapretFirst" -> Tapret

(***************************************************************************)
(* Terminals, commitments and derived scripts.                             *)
(***************************************************************************)
None == "none"

\* TapretCommitment payloads (opaque)
Commitments == {"mpc1", "mpc2"}

Indexes == 0..MaxIndex

\* Terminal::new(keychain, index)
Terminals == Keychains \X Indexes

\* DerivedScript: the forms derive can return
TaprootKeyOnly(key) == [form |-> "TaprootKeyOnly", key |-> key, leaf |-> None]

TaprootScript(key, leaf) == [form |-> "TaprootScript", key |-> key, leaf |-> leaf]

Bare(key) == [form |-> "Bare", key |-> key, leaf |-> None]

NoScript == [form |-> "none", key |-> <<0, 0>>, leaf |-> None]

(***************************************************************************)
(* TapretKey (descriptor.rs 119-233).  tweaks is the HashMap              *)
(* Terminal -> TapretCommitment, a function on the assigned terminals.     *)
(***************************************************************************)
new_unfunded == [t \in {} |-> None]

\* HashMap::insert: puts or replaces the entry at t
Insert(tweaks, t, c) ==
    [x \in (DOMAIN tweaks) \cup {t} |-> IF x = t THEN c ELSE tweaks[x]]

\* a derive that ignores the tweak table
TapretKey_derive_NoTweak(tweaks, keychain, index) ==
    TaprootKeyOnly(<<keychain, index>>)

\* a derive that commits on every commitment-bearing keychain
TapretKey_derive_AnySeal(tweaks, keychain, index) ==
    LET terminal == <<keychain, index>>
        internal_key == <<keychain, index>>
    IN  IF is_seal(keychain) /\ terminal \in DOMAIN tweaks
        THEN TaprootScript(internal_key, tweaks[terminal])
        ELSE TaprootKeyOnly(internal_key)

\* a derive that looks the tweak up by the index alone
TapretKey_derive_ByIndex(tweaks, keychain, index) ==
    LET internal_key == <<keychain, index>>
        hits == {t \in DOMAIN tweaks : t[2] = index}
    IN  IF keychain = Tapret /\ hits # {}
        THEN TaprootScript(internal_key, tweaks[CHOOSE t \in hits : TRUE])
        ELSE TaprootKeyOnly(internal_key)

TapretKey_derive(tweaks, keychain, index) ==
    LET terminal == <<keychain, index>>
        internal_key == <<keychain, index>>
    IN  IF keychain = Tapret /\ terminal \in DOMAIN tweaks
        THEN TaprootScript(internal_key, tweaks[terminal])
        ELSE TaprootKeyOnly(internal_key)

\* an add that replaces an assigned tweak
TapretKey_add_tapret_tweak_Overwrite(tweaks, terminal, tweak) ==
    [tag |-> "Ok", terminal |-> terminal, tweaks |-> Insert(tweaks, terminal, tweak)]

\* an add that reports success and drops a tweak differing from "mpc1"
TapretKey_add_tapret_tweak_Drop(tweaks, terminal, tweak) ==
    IF terminal \in DOMAIN tweaks
    THEN [tag |-> "TapTweakAlreadyAssigned", terminal |-> terminal, tweaks |-> tweaks]
    ELSE [tag |-> "Ok", terminal |-> terminal,
          tweaks |-> IF tweak = "mpc1" THEN Insert(tweaks, terminal, tweak) ELSE tweaks]

\* an add that, on a collision, removes the assigned tweak
TapretKey_add_tapret_tweak_Evict(tweaks, terminal, tweak) ==
    IF terminal \in DOMAIN tweaks
    THEN [tag |-> "TapTweakAlreadyAssigned", terminal |-> terminal,
          tweaks |-> [x \in (DOMAIN tweaks) \ {terminal} |-> tweaks[x]]]
    ELSE [tag |-> "Ok", terminal |-> terminal, tweaks |-> Insert(tweaks, terminal, tweak)]

\* the result tag, the terminal an error carries, and the table afterwards
TapretKey_add_tapret_tweak(tweaks, terminal, tweak) ==
    IF terminal \in DOMAIN tweaks
    THEN [tag |-> "TapTweakAlreadyAssigned", terminal |-> terminal, tweaks |-> tweaks]
    ELSE [tag |-> "Ok", terminal |-> terminal, tweaks |-> Insert(tweaks, terminal, tweak)]

TapretKey_seal_close_method == "TapretFirst"

(***************************************************************************)
(* RgbDescr (descriptor.rs 249-352): dispatch over {Wpkh, TapretKey}.      *)
(***************************************************************************)
Variants == {"Wpkh", "TapretKey"}

RgbDescr_derive(d, change, index) ==
    CASE d.variant = "Wpkh" -> Bare(<<change, index>>)
      [] d.variant = "TapretKey" -> TapretKey_derive(d.tweaks, change, index)

RgbDescr_seal_close_method(d) ==
    CASE d.variant = "Wpkh" -> "OpretFirst"
      [] d.variant = "TapretKey" -> TapretKey_seal_close_method

\* a dispatch that lets the plain variant report success
RgbDescr_add_tapret_tweak_Tolerant(d, terminal, tweak) ==
    CASE d.variant = "Wpkh" ->
            [tag |-> "Ok", terminal |-> terminal, tweaks |-> d.tweaks]
      [] d.variant = "TapretKey" ->
            TapretKey_add_tapret_tweak(d.tweaks, terminal, tweak)

RgbDescr_add_tapret_tweak(d, terminal, tweak) ==
    CASE d.variant = "Wpkh" ->
            [tag |-> "panic", terminal |-> terminal, tweaks |-> d.tweaks]
      [] d.variant = "TapretKey" ->
            TapretKey_add_tapret_tweak(d.tweaks, terminal, tweak)

(***************************************************************************)
(* The data of a payment (pay.rs).                                         *)
(***************************************************************************)
Seals == 1..MaxSeals

Contracts == {"c1", "c2"}

Amounts == 1..MaxAmount

\* the amounts an invoice may request
Requests == 0..(MaxAmount + 1)

\* the fungible state a contract has on one seal: no, one or two allocations
ValLists ==
    {<<>>} \cup {<<a>> : a \in Amounts}
           \cup {p \in Amounts \X Amounts : p[1] <= p[2]}

\* a script pubkey; terminal and leaf tell the scripts of the wallet apart
Script(kind, payee, terminal, leaf) ==
    [kind |-> kind, payee |-> payee, terminal |-> terminal, leaf |-> leaf]

\* the script pubkey of a derived script
ScriptPubkey(d) ==
    Script(IF d.form = "Bare" THEN "p2wpkh" ELSE "p2tr", "wallet", d.key, d.leaf)

\* ScriptPubkey::op_return(&[])
op_return == Script("op_return", "nobody", <<0, 0>>, None)

\* addresses of witness-output beneficiaries
AddrA == Script("p2tr", "A", <<0, 0>>, None)

AddrB == Script("p2wpkh", "B", <<0, 0>>, None)

\* Beneficiary::BlindedSeal(seal) and Beneficiary::WitnessVout(address)
BlindedSeal(seal) == [kind |-> "BlindedSeal", seal |-> seal, script |-> op_return]

WitnessVout(script) == [kind |-> "WitnessVout", seal |-> None, script |-> script]

\* InvoiceState::Amount(amount), and a kind that is not an amount
Amount(a) == [kind |-> "Amount", amount |-> a]

Data == [kind |-> "Data", amount |-> 0]

\* RgbInvoice; expiry is an Option, a set of at most one timestamp
Invoice(contract, iface, operation, assignment, owned_state, beneficiary) ==
    [contract |-> contract, iface |-> iface, operation |-> operation,
     assignment |-> assignment, owned_state |-> owned_state,
     beneficiary |-> beneficiary, expiry |-> {}]

\* an invoice with every field given
FullInvoice(contract, a, beneficiary) ==
    Invoice(contract, "RGB20", "transfer", "assetOwner", Amount(a), beneficiary)

\* psbt::Output
Output(script) == [script |-> script, tapret_host |-> FALSE, opret_host |-> FALSE]

is_p2tr(script) == script.kind = "p2tr"

\* Option<Vout> as a set with at most one element; vouts count from 0
Some(v) == {v}

NoVout == {}

\* find(..).map(vout): the vout of the first of the positions hits, if any
Position(hits) ==
    IF hits = {} THEN NoVout
    ELSE Some((CHOOSE i \in hits : \A j \in hits : i <= j) - 1)

\* the positions of the outputs with the script sc
WithScript(outputs, sc) == {i \in 1..Len(outputs) : outputs[i].script = sc}

RECURSIVE Sum(_)
\* vals.iter().copied().sum::<Amount>()
Sum(vals) == IF vals = <<>> THEN 0 ELSE Head(vals) + Sum(Tail(vals))

RECURSIVE SeqOfSet(_)
\* the elements of a set of numbers, ascending
SeqOfSet(S) ==
    IF S = {} THEN <<>>
    ELSE LET m == CHOOSE x \in S : \A y \in S : x <= y
         IN  <<m>> \o SeqOfSet(S \ {m})

(***************************************************************************)
(* ContractOutpointsFilter (pay.rs 59-93).                                 *)
(***************************************************************************)
\* stock.contract_assignments_for(contract_id, [output]): the assignments
\* of the contract on the output, or an error of the lookup
contract_assignments_for(contract_id, output) ==
    IF output \in stock.unindexed
    THEN [tag |-> "Err", list |-> <<>>]
    ELSE [tag |-> "Ok", list |-> stock.fungible[contract_id][output]]

\* a filter that lets an outpoint pass on either test
include_outpoint_Either(contract_id, output) ==
    LET r == contract_assignments_for(contract_id, output)
    IN  output \in owned \/ (r.tag = "Ok" /\ r.list # <<>>)

include_outpoint(contract_id, output) ==
    IF ~(output \in owned)
    THEN FALSE
    ELSE LET r == contract_assignments_for(contract_id, output)
         IN  r.tag = "Ok" /\ r.list # <<>>

(***************************************************************************)
(* The selection of previous outputs (pay.rs 154-187).                     *)
(***************************************************************************)
\* contract.fungible(assignment_name, &filter) folded into the BTreeMap
\* seal -> amounts: an entry for each seal with an item under the filter
FungibleBySeal(contract_id) ==
    LET shown == {s \in Seals : /\ stock.fungible[contract_id][s] # <<>>
                                /\ include_outpoint(contract_id, s)}
    IN  [s \in shown |-> stock.fungible[contract_id][s]]

\* the map as the vector of (sum, seal, vals), in the order of the map
StateVec(contract_id) ==
    LET m == FungibleBySeal(contract_id)
        order == SeqOfSet(DOMAIN m)
    IN  [i \in 1..Len(order) |-> <<Sum(m[order[i]]), order[i], m[order[i]]>>]

RECURSIVE InsertByKey(_, _)
\* puts e behind the elements whose sum is not larger (a stable insertion)
InsertByKey(sorted, e) ==
    IF sorted = <<>> THEN <<e>>
    ELSE IF Head(sorted)[1] <= e[1]
         THEN <<Head(sorted)>> \o InsertByKey(Tail(sorted), e)
         ELSE <<e>> \o sorted

RECURSIVE sort_by_key_Descending(_)
\* a sort that puts the largest sum first
sort_by_key_Descending(state) ==
    IF state = <<>> THEN <<>>
    ELSE LET rest == sort_by_key_Descending(SubSeq(state, 1, Len(state) - 1))
             e == state[Len(state)]
             before == SelectSeq(rest, LAMBDA x : x[1] >= e[1])
             after == SelectSeq(rest, LAMBDA x : x[1] < e[1])
         IN  before \o <<e>> \o after

RECURSIVE sort_by_key(_)
\* state.sort_by_key(|(sum, _, _)| *sum): stable, ascending
sort_by_key(state) ==
    IF state = <<>> THEN <<>>
    ELSE InsertByKey(sort_by_key(SubSeq(state, 1, Len(state) - 1)), state[Len(state)])

RECURSIVE take_while_Late(_, _, _, _)
\* a walk that stops only once the total exceeds the amount
take_while_Late(state, i, sum, amount) ==
    IF i = 0 THEN <<>>
    ELSE IF sum > amount THEN <<>>
         ELSE <<state[i][2]>> \o take_while_Late(state, i - 1, sum + state[i][1], amount)

RECURSIVE take_while_AtLeastOne(_, _, _, _)
\* a walk that takes a seal before it looks at the total
take_while_AtLeastOne(state, i, sum, amount) ==
    IF i = 0 THEN <<>>
    ELSE <<state[i][2]>> \o
         (IF sum + state[i][1] >= amount THEN <<>>
          ELSE take_while_AtLeastOne(state, i - 1, sum + state[i][1], amount))

RECURSIVE take_while(_, _, _, _)
\* state.iter().rev().take_while(..).map(seal): from position i down, the
\* seals taken while the running sum is below the amount
take_while(state, i, sum, amount) ==
    IF i = 0 THEN <<>>
    ELSE IF sum >= amount THEN <<>>
         ELSE <<state[i][2]>> \o take_while(state, i - 1, sum + state[i][1], amount)

\* the seals selected for one invoice, in the order they were taken
SelectSeals(invoice) ==
    LET state == sort_by_key(StateVec(invoice.contract))
    IN  take_while(state, Len(state), 0, invoice.owned_state.amount)

Range(seq) == {seq[i] : i \in 1..Len(seq)}

(***************************************************************************)
(* construct_psbt_rgb (pay.rs 119-268), piece by piece.                    *)
(***************************************************************************)
\* invoice.operation, or the interface's default operation
OperationOf(invoice) ==
    IF invoice.operation # None THEN invoice.operation
    ELSE stock.iface.default_operation

\* invoice.assignment, or the default assignment of the operation
AssignmentOf(invoice) ==
    IF invoice.assignment # None THEN invoice.assignment
    ELSE IF OperationOf(invoice) \in DOMAIN stock.iface.transitions
         THEN stock.iface.transitions[OperationOf(invoice)].default_assignment
         ELSE None

\* a validation that looks at the operation and the assignment first
CheckInvoice_DefaultsFirst(invoice) ==
    IF OperationOf(invoice) = None THEN "NoOperation"
    ELSE IF AssignmentOf(invoice) = None THEN "NoAssignment"
    ELSE IF invoice.contract = None THEN "NoContract"
    ELSE IF invoice.iface = None THEN "NoIface"
    ELSE IF invoice.iface # stock.iface.name THEN "Stock"
    ELSE IF ~(invoice.contract \in DOMAIN stock.fungible) THEN "Stock"
    ELSE IF invoice.owned_state.kind # "Amount" THEN "Unsupported"
    ELSE IF AssignmentOf(invoice) # stock.iface.assignment THEN "Stock"
    ELSE "Ok"

\* the error the loop body ends with for one invoice, or "Ok" (129-163, 188)
CheckInvoice(invoice) ==
    IF invoice.contract = None THEN "NoContract"
    ELSE IF invoice.iface = None THEN "NoIface"
    ELSE IF invoice.iface # stock.iface.name THEN "Stock"
    ELSE IF ~(invoice.contract \in DOMAIN stock.fungible) THEN "Stock"
    ELSE IF OperationOf(invoice) = None THEN "NoOperation"
    ELSE IF AssignmentOf(invoice) = None THEN "NoAssignment"
    ELSE IF invoice.owned_state.kind # "Amount" THEN "Unsupported"
    ELSE IF AssignmentOf(invoice) # stock.iface.assignment THEN "Stock"
    ELSE "Ok"

\* the addresses of the witness-output beneficiaries, in invoice order (191-197)
Beneficiaries(invs) ==
    LET w == SelectSeq(invs, LAMBDA i : i.beneficiary.kind = "WitnessVout")
    IN  [k \in 1..Len(w) |-> w[k].beneficiary.script]

\* the set beneficiary_script (209-218)
beneficiary_script(invs) == Range(Beneficiaries(invs))

\* seq with e put in at position pos (0: in front)
InsertAt(seq, pos, e) == SubSeq(seq, 1, pos) \o <<e>> \o SubSeq(seq, pos + 1, Len(seq))

\* the outputs construct_psbt answers with: one per beneficiary, and the
\* change output, on the change keychain, where the collaborator puts it
construct_psbt(beneficiaries, change_keychain) ==
    LET outs == [k \in 1..Len(beneficiaries) |-> Output(beneficiaries[k])]
        change == Output(ScriptPubkey(
                      RgbDescr_derive(descr, change_keychain, collab.change_index)))
    IN  IF collab.change THEN InsertAt(outs, collab.change_pos, change) ELSE outs

\* a tagging that takes the first taproot output, whomever it pays
set_tapret_host_AnyTaproot(outputs, scripts) ==
    LET at == Position({i \in 1..Len(outputs) : is_p2tr(outputs[i].script)})
    IN  [k \in 1..Len(outputs) |->
            IF at = Some(k - 1) THEN [outputs[k] EXCEPT !.tapret_host = TRUE]
            ELSE outputs[k]]

\* the first taproot output that pays no beneficiary becomes the host (220-222)
set_tapret_host(outputs, scripts) ==
    LET at == Position({i \in 1..Len(outputs) :
                           /\ is_p2tr(outputs[i].script)
                           /\ ~(outputs[i].script \in scripts)})
    IN  [k \in 1..Len(outputs) |->
            IF at = Some(k - 1) THEN [outputs[k] EXCEPT !.tapret_host = TRUE]
            ELSE outputs[k]]

\* a sort by the key is_tapret_host: the hosts go behind
sort_outputs_by_HostLast(outputs) ==
    SelectSeq(outputs, LAMBDA o : ~o.tapret_host)
        \o SelectSeq(outputs, LAMBDA o : o.tapret_host)

\* psbt.sort_outputs_by(|output| !output.is_tapret_host()) (229-230): a
\* stable sort by a bool key, false before true, so the hosts go in front
sort_outputs_by(outputs) ==
    LET key(o) == ~o.tapret_host
    IN  SelectSeq(outputs, LAMBDA o : key(o) = FALSE)
            \o SelectSeq(outputs, LAMBDA o : key(o) = TRUE)

\* the change index is left as the collaborator gave it
ResolveChange_Stale(outputs, change_script, change_vout) == change_vout

\* meta.change_vout after the sort (231-238): the first output whose script
\* is the change script; change_script is an Option, a set of at most one
ResolveChange(outputs, change_script, change_vout) ==
    IF change_script = {} THEN change_vout
    ELSE LET at == Position(UNION {WithScript(outputs, sc) : sc \in change_script})
         IN  IF at = NoVout THEN change_vout ELSE at

\* per beneficiary script, the first output paying it (240-253)
beneficiary_vout(outputs, scripts) ==
    UNION {Position(WithScript(outputs, sc)) : sc \in scripts}

\* psbt.rgb_embed(batch) (266): a batch closing by tapret needs a host
rgb_embed(outputs, methods) ==
    IF "TapretFirst" \in methods /\ ~(\E k \in 1..Len(outputs) : outputs[k].tapret_host)
    THEN "TapretRequired"
    ELSE IF collab.embed = "Err" THEN "Embed"
    ELSE "Ok"

NotHanded ==
    [called |-> FALSE, prev_outpoints |-> {}, beneficiaries |-> <<>>,
     change_keychain |-> {}]

NotComposed ==
    [called |-> FALSE, prev_outputs |-> {}, method |-> None,
     beneficiary_vout |-> {}, change_vout |-> {}]

NoRet == [tag |-> None, err |-> None]

Ok == [tag |-> "Ok", err |-> None]

Err(e) == [tag |-> "Err", err |-> e]

Panic(e) == [tag |-> "panic", err |-> e]

\* what the call leaves: its result and what it did on the way
Outcome(r, outputs, change_vout, selected, h, c) ==
    [ret |-> r, psbt |-> outputs, meta |-> [change_vout |-> change_vout],
     sel |-> selected, handed |-> h, composed |-> c]

\* a composition that puts the opret host in front of the outputs
ComposeAndEmbed_OpretFront(invs, selected, h, method, sorted, change_vout, bvout) ==
    LET c == [called |-> TRUE, prev_outputs |-> h.prev_outpoints, method |-> method,
              beneficiary_vout |-> bvout, change_vout |-> change_vout]
        methods == collab.methods
        withOpret ==
            IF "OpretFirst" \in methods
            THEN <<[Output(op_return) EXCEPT !.opret_host = TRUE]>> \o sorted
            ELSE sorted
        embedded == rgb_embed(withOpret, methods)
    IN  IF collab.compose = "Err"
        THEN Outcome(Err("Stock"), sorted, change_vout, selected, h, c)
        ELSE IF embedded # "Ok"
        THEN Outcome(Err(embedded), withOpret, change_vout, selected, h, c)
        ELSE Outcome(Ok, withOpret, change_vout, selected, h, c)

\* 255-267: compose the batch, add the opret host, lock and embed
ComposeAndEmbed(invs, selected, h, method, sorted, change_vout, bvout) ==
    LET c == [called |-> TRUE, prev_outputs |-> h.prev_outpoints, method |-> method,
              beneficiary_vout |-> bvout, change_vout |-> change_vout]
        methods == collab.methods
        withOpret ==
            IF "OpretFirst" \in methods
            THEN Append(sorted, [Output(op_return) EXCEPT !.opret_host = TRUE])
            ELSE sorted
        embedded == rgb_embed(withOpret, methods)
    IN  IF collab.compose = "Err"
        THEN Outcome(Err("Stock"), sorted, change_vout, selected, h, c)
        ELSE IF embedded # "Ok"
        THEN Outcome(Err(embedded), withOpret, change_vout, selected, h, c)
        ELSE Outcome(Ok, withOpret, change_vout, selected, h, c)

\* only the seals of the last invoice are kept
PrevOutputs_LastOnly(selected) ==
    IF selected = <<>> THEN {} ELSE Range(selected[Len(selected)])

\* prev_outputs.extend(prev_output) for every invoice (126, 190): the union
PrevOutputs(selected) == UNION {Range(selected[i]) : i \in 1..Len(selected)}

\* 205-253: construct the skeleton, tag the host, sort, resolve the indexes
ConstructAndSort(invs, selected) ==
    LET method == RgbDescr_seal_close_method(descr)
        prev_outputs == PrevOutputs(selected)
        beneficiaries == Beneficiaries(invs)
        change_keychain == for_method(method)
        h == [called |-> TRUE, prev_outpoints |-> prev_outputs,
              beneficiaries |-> beneficiaries, change_keychain |-> {change_keychain}]
        built == construct_psbt(beneficiaries, change_keychain)
        meta0 == IF collab.change THEN Some(collab.change_pos) ELSE NoVout
        scripts == beneficiary_script(invs)
        tagged == set_tapret_host(built, scripts)
        change_script == {tagged[v + 1].script : v \in {x \in meta0 : x < Len(tagged)}}
        sorted == sort_outputs_by(tagged)
        change_vout == ResolveChange(sorted, change_script, meta0)
        bvout == beneficiary_vout(sorted, scripts)
    IN  IF collab.construct = "Err"
        THEN Outcome(Err("Construct"), <<>>, NoVout, selected, h, NotComposed)
        ELSE IF \E sc \in scripts : Position(WithScript(sorted, sc)) = NoVout
        THEN Outcome(Panic("PSBT without beneficiary address"), sorted, change_vout,
                     selected, h, NotComposed)
        ELSE IF debug_assertions /\ bvout \cap change_vout # {}
        THEN Outcome(Panic("debug_assert_ne"), sorted, change_vout,
                     selected, h, NotComposed)
        ELSE ComposeAndEmbed(invs, selected, h, method, sorted, change_vout, bvout)

\* 125-198: the loop over the invoices, then the rest
construct_psbt_rgb(invs) ==
    LET n == Len(invs)
        bad == {i \in 1..n : CheckInvoice(invs[i]) # "Ok"}
        firstBad == CHOOSE i \in bad : \A j \in bad : i <= j
        done == IF bad = {} THEN n ELSE firstBad - 1
        selected == [i \in 1..done |-> SelectSeals(invs[i])]
    IN  IF bad # {}
        THEN Outcome(Err(CheckInvoice(invs[firstBad])), <<>>, NoVout, selected,
                     NotHanded, NotComposed)
        ELSE ConstructAndSort(invs, selected)

(***************************************************************************)
(* transfer (pay.rs 271-331), piece by piece.                              *)
(***************************************************************************)
\* psbt.dbc_output::<TapretProof>(): the output that hosts the commitment
dbc_output(outputs) == Position({k \in 1..Len(outputs) : outputs[k].tapret_host})

\* output.terminal_derivation(): the terminal the wallet derived the
\* output's script at, none for a script that is not the wallet's
terminal_derivation(output) ==
    IF output.script.payee = "wallet" THEN {output.script.terminal} ELSE {}

\* the conversion `?` applies to a TapretKeyError inside transfer
From_TapretKeyError(e) == "MultipleTweaks"

\* what the steps before the consumption leave: a result and a tweak table
Tweaked(r, tweaks) == [ret |-> r, tweaks |-> tweaks]

\* 277-288: extract the fascia and, for a tapret anchor, record the tweak
RecordTweak(d, outputs) ==
    LET host == dbc_output(outputs)
        terminals == UNION {terminal_derivation(outputs[v + 1]) : v \in host}
    IN  IF fin.rgb_commit = "Err" THEN Tweaked(Err("Commit"), d.tweaks)
        ELSE IF ~fin.has_tapret THEN Tweaked(Ok, d.tweaks)
        ELSE IF host = NoVout
        THEN Tweaked(Err(From_TapretKeyError("NotTaprootOutput")), d.tweaks)
        ELSE IF terminals = {} THEN Tweaked(Err("InconclusiveDerivation"), d.tweaks)
        ELSE IF fin.tapret_commitment = "Err"
        THEN Tweaked(Err("TapretCommitment"), d.tweaks)
        ELSE LET terminal == CHOOSE t \in terminals : TRUE
                 r == RgbDescr_add_tapret_tweak(d, terminal, fin.tapret_commitment)
             IN  IF r.tag = "panic" THEN Tweaked(Panic("add_tapret_tweak"), r.tweaks)
                 ELSE IF r.tag # "Ok"
                 THEN Tweaked(Err(From_TapretKeyError(r.tag)), r.tweaks)
                 ELSE Tweaked(Ok, r.tweaks)

\* a grouping that puts every invoice under the contract of the first one
invoice_map_Merged(invs) ==
    IF \E k \in 1..Len(invs) : invs[k].contract = None
    THEN [tag |-> "NoContract", map |-> [c \in {} |-> <<>>]]
    ELSE [tag |-> "Ok", map |-> [c \in {invs[1].contract} |-> invs]]

\* 292-296: the invoices of each contract id, in the order of the call
invoice_map(invs) ==
    IF \E k \in 1..Len(invs) : invs[k].contract = None
    THEN [tag |-> "NoContract", map |-> [c \in {} |-> <<>>]]
    ELSE [tag |-> "Ok",
          map |-> [c \in {invs[k].contract : k \in 1..Len(invs)} |->
                      SelectSeq(invs, LAMBDA i : i.contract = c)]]

\* XChain::Bitcoin(ExplicitSeal::new(method, Outpoint::new(witness_txid, vout)))
ExplicitSeal(method, vout) == [method |-> method, vout |-> vout]

\* a build that takes the last output with the beneficiary's script
TransferOf_LastMatch(contract_id, invs, outputs, method) ==
    LET witness == SelectSeq(invs, LAMBDA i : i.beneficiary.kind = "WitnessVout")
        blinded == SelectSeq(invs, LAMBDA i : i.beneficiary.kind = "BlindedSeal")
        hits(k) == WithScript(outputs, witness[k].beneficiary.script)
        beneficiary2 == [k \in 1..Len(witness) |->
                            ExplicitSeal(method,
                                (CHOOSE i \in hits(k) : \A j \in hits(k) : j <= i) - 1)]
        beneficiary1 == [k \in 1..Len(blinded) |-> blinded[k].beneficiary.seal]
    IN  IF \E k \in 1..Len(witness) : hits(k) = {}
        THEN [tag |-> "NoBeneficiaryOutput", transfer |-> None]
        ELSE IF contract_id \in fin.transfer_fails
        THEN [tag |-> "Stock", transfer |-> None]
        ELSE [tag |-> "Ok",
              transfer |-> [contract_id |-> contract_id, beneficiary2 |-> beneficiary2,
                            beneficiary1 |-> beneficiary1]]

\* 300-327: the transfer of one contract, or the error its build ends with
TransferOf(contract_id, invs, outputs, method) ==
    LET witness == SelectSeq(invs, LAMBDA i : i.beneficiary.kind = "WitnessVout")
        blinded == SelectSeq(invs, LAMBDA i : i.beneficiary.kind = "BlindedSeal")
        at(k) == Position(WithScript(outputs, witness[k].beneficiary.script))
        beneficiary2 == [k \in 1..Len(witness) |->
                            ExplicitSeal(method, CHOOSE v \in at(k) : TRUE)]
        beneficiary1 == [k \in 1..Len(blinded) |-> blinded[k].beneficiary.seal]
    IN  IF \E k \in 1..Len(witness) : at(k) = NoVout
        THEN [tag |-> "NoBeneficiaryOutput", transfer |-> None]
        ELSE IF contract_id \in fin.transfer_fails
        THEN [tag |-> "Stock", transfer |-> None]
        ELSE [tag |-> "Ok",
              transfer |-> [contract_id |-> contract_id, beneficiary2 |-> beneficiary2,
                            beneficiary1 |-> beneficiary1]]

\* the orders a HashMap over the keys S may iterate in
Orders(S) ==
    {o \in [1..Cardinality(S) -> S] : \A i, j \in 1..Cardinality(S) : o[i] = o[j] => i = j}

RECURSIVE BuildTransfers(_, _, _, _, _)
\* 298-328: the loop over the map, in the order the map iterates in
BuildTransfers(map, order, outputs, method, built) ==
    IF order = <<>> THEN [ret |-> Ok, transfers |-> built]
    ELSE LET t == TransferOf(Head(order), map[Head(order)], outputs, method)
         IN  IF t.tag # "Ok" THEN [ret |-> Err(t.tag), transfers |-> <<>>]
             ELSE BuildTransfers(map, Tail(order), outputs, method,
                                 Append(built, t.transfer))

\* what transfer leaves: its result, the tweak table, the fascias consumed
Finalized(r, tweaks, n, built) ==
    [ret |-> r, tweaks |-> tweaks, consumed |-> n, transfers |-> built]

\* 289-330: consume the fascia, group the invoices, build the transfers
ConsumeAndBuild(d, invs, outputs, order) ==
    LET m == invoice_map(invs)
        b == BuildTransfers(m.map, order, outputs, RgbDescr_seal_close_method(d), <<>>)
    IN  IF fin.consume_fascia = "Err" THEN Finalized(Err("Stock"), d.tweaks, 0, <<>>)
        ELSE IF m.tag # "Ok" THEN Finalized(Err(m.tag), d.tweaks, 1, <<>>)
        ELSE Finalized(b.ret, d.tweaks, 1, b.transfers)

\* a transfer that consumes the fascia before it records the tweak
transfer_ConsumeFirst(d, invs, outputs, order) ==
    LET t == RecordTweak(d, outputs)
    IN  IF fin.rgb_commit = "Err" THEN Finalized(t.ret, t.tweaks, 0, <<>>)
        ELSE IF fin.consume_fascia = "Err" THEN Finalized(Err("Stock"), d.tweaks, 0, <<>>)
        ELSE IF t.ret # Ok THEN Finalized(t.ret, t.tweaks, 1, <<>>)
        ELSE ConsumeAndBuild([d EXCEPT !.tweaks = t.tweaks], invs, outputs, order)

\* a transfer that takes the tweak back when a later step fails
transfer_Rollback(d, invs, outputs, order) ==
    LET t == RecordTweak(d, outputs)
        c == ConsumeAndBuild([d EXCEPT !.tweaks = t.tweaks], invs, outputs, order)
    IN  IF t.ret # Ok THEN Finalized(t.ret, t.tweaks, 0, <<>>)
        ELSE IF c.ret # Ok THEN [c EXCEPT !.tweaks = d.tweaks]
        ELSE c

\* a transfer that consumes the fascia only for a tapret anchor
transfer_ConsumeInBranch(d, invs, outputs, order) ==
    LET t == RecordTweak(d, outputs)
        c == ConsumeAndBuild([d EXCEPT !.tweaks = t.tweaks], invs, outputs, order)
    IN  IF t.ret # Ok THEN Finalized(t.ret, t.tweaks, 0, <<>>)
        ELSE IF fin.has_tapret THEN c
        ELSE [c EXCEPT !.consumed = 0]

\* 271-331: transfer on the invoices and the psbt outputs, the map of the
\* invoices iterating in the given order
transfer(d, invs, outputs, order) ==
    LET t == RecordTweak(d, outputs)
    IN  IF t.ret # Ok THEN Finalized(t.ret, t.tweaks, 0, <<>>)
        ELSE ConsumeAndBuild([d EXCEPT !.tweaks = t.tweaks], invs, outputs, order)

(***************************************************************************)
(* The descriptor's operations as steps.  last records the call.           *)
(***************************************************************************)
NoCall ==
    [op |-> "none", terminal |-> <<0, 0>>, tweak |-> None, tag |-> None,
     err |-> <<0, 0>>, script |-> NoScript, method |-> None]

Running == last.tag # "panic"

Derive(keychain, index) ==
    /\ Running
    /\ last' = [NoCall EXCEPT !.op = "derive", !.terminal = <<keychain, index>>,
                              !.tag = "Ok",
                              !.script = RgbDescr_derive(descr, keychain, index)]
    /\ UNCHANGED descr
    /\ UNCHANGED payVars

AddTapretTweak(terminal, tweak) ==
    /\ Running
    /\ Cardinality(DOMAIN descr.tweaks) < MaxTweaks \/ terminal \in DOMAIN descr.tweaks
    /\ LET r == RgbDescr_add_tapret_tweak(descr, terminal, tweak)
       IN  /\ descr' = [descr EXCEPT !.tweaks = r.tweaks]
           /\ last' = [NoCall EXCEPT !.op = "add_tapret_tweak", !.terminal = terminal,
                                     !.tweak = tweak, !.tag = r.tag,
                                     !.err = IF r.tag = "TapTweakAlreadyAssigned"
                                             THEN r.terminal ELSE <<0, 0>>]
    /\ UNCHANGED payVars

SealCloseMethod ==
    /\ Running
    /\ last' = [NoCall EXCEPT !.op = "seal_close_method", !.tag = "Ok",
                              !.method = RgbDescr_seal_close_method(descr)]
    /\ UNCHANGED descr
    /\ UNCHANGED payVars

\* RGB20: the interface every contract of the model implements
IfaceRGB20 ==
    [name |-> "RGB20", default_operation |-> "transfer", assignment |-> "assetOwner",
     transitions |-> [op \in {"transfer"} |-> [default_assignment |-> "assetOwner"]]]

\* an inventory with no state, and collaborators that go along
EmptyStock ==
    [fungible |-> [c \in Contracts |-> [s \in Seals |-> <<>>]], iface |-> IfaceRGB20,
     unindexed |-> {}]

Cooperative ==
    [construct |-> "Ok", change |-> TRUE, change_pos |-> 0, change_index |-> 0,
     compose |-> "Ok", methods |-> {"TapretFirst"}, embed |-> "Ok"]

\* nothing was called yet
NothingCalled ==
    /\ pc = "idle"
    /\ ret = NoRet
    /\ psbt = <<>>
    /\ meta = [change_vout |-> NoVout]
    /\ sel = <<>>
    /\ handed = NotHanded
    /\ composed = NotComposed

\* a psbt and an inventory that go along with transfer
Compliant ==
    [rgb_commit |-> "Ok", has_tapret |-> TRUE, tapret_commitment |-> "mpc1",
     consume_fascia |-> "Ok", transfer_fails |-> {}]

\* transfer was not called yet
NothingFinalized ==
    /\ consumed = 0
    /\ tret = NoRet
    /\ transfers = <<>>

InitDescr ==
    /\ descr \in [variant : Variants, tweaks : {new_unfunded}]
    /\ last = NoCall
    /\ stock = EmptyStock
    /\ owned = Seals
    /\ collab = Cooperative
    /\ debug_assertions = FALSE
    /\ invoices = <<>>
    /\ NothingCalled
    /\ fin = Compliant
    /\ NothingFinalized

NextDescr ==
    \/ \E k \in Keychains, i \in Indexes : Derive(k, i)
    \/ \E t \in Terminals, c \in Commitments : AddTapretTweak(t, c)
    \/ SealCloseMethod

SpecDescr == InitDescr /\ [][NextDescr]_vars

(***************************************************************************)
(* construct_psbt_rgb as one step on the invoices of the run.              *)
(***************************************************************************)
ConstructPsbtRgb ==
    /\ pc = "idle"
    /\ LET o == construct_psbt_rgb(invoices)
       IN  /\ ret' = o.ret
           /\ psbt' = o.psbt
           /\ meta' = o.meta
           /\ sel' = o.sel
           /\ handed' = o.handed
           /\ composed' = o.composed
    /\ pc' = "returned"
    /\ UNCHANGED <<descr, last, stock, owned, collab, debug_assertions, invoices>>
    /\ UNCHANGED <<fin, consumed, tret, transfers>>

NextPay == ConstructPsbtRgb

\* the contract "c1" has any state on the seals; "c2" has none
SelectStocks ==
    {[EmptyStock EXCEPT !.fungible["c1"] = f] : f \in [Seals -> ValLists]}

\* 1..MaxInvoices invoices for "c1", each to a blinded seal
SelectInvoices ==
    UNION {[1..n -> {FullInvoice("c1", a, BlindedSeal("b1")) : a \in Requests}]
           : n \in 1..MaxInvoices}

\* runs that vary the state and the amounts the selection works on
InitSelect ==
    /\ descr = [variant |-> "TapretKey", tweaks |-> new_unfunded]
    /\ last = NoCall
    /\ stock \in SelectStocks
    /\ owned = Seals
    /\ collab = Cooperative
    /\ debug_assertions = FALSE
    /\ invoices \in SelectInvoices
    /\ NothingCalled
    /\ fin = Compliant
    /\ NothingFinalized

SpecSelect == InitSelect /\ [][NextPay]_vars

\* the wallet's own script on the change keychain at index 0
OwnAddr(variant) ==
    LET d == [variant |-> variant, tweaks |-> new_unfunded]
    IN  ScriptPubkey(RgbDescr_derive(d, for_method(RgbDescr_seal_close_method(d)), 0))

\* whom an invoice of these runs pays
ComposeBeneficiaries(variant) ==
    {BlindedSeal("b1"), WitnessVout(AddrA), WitnessVout(AddrB),
     WitnessVout(OwnAddr(variant))}

\* 1..MaxInvoices invoices for "c1", each asking for 1
ComposeInvoices(variant) ==
    UNION {[1..n -> {FullInvoice("c1", 1, b) : b \in ComposeBeneficiaries(variant)}]
           : n \in 1..MaxInvoices}

\* "c1" has one allocation of 1 on the first seal
ComposeStock == [EmptyStock EXCEPT !.fungible["c1"][1] = <<1>>]

\* the answers of the collaborators to a call with n witness beneficiaries:
\* construct_psbt fails, or gives no change, or a change output at some
\* place; compose fails or gives a batch with its closing methods; the
\* embedding fails or not
Collabs(n) ==
    {[Cooperative EXCEPT !.construct = "Err"]}
    \cup {[Cooperative EXCEPT !.change = FALSE, !.compose = "Err"]}
    \cup {[Cooperative EXCEPT !.change = FALSE, !.methods = m, !.embed = e]
            : m \in (SUBSET Methods) \ {{}}, e \in {"Ok", "Err"}}
    \cup {[Cooperative EXCEPT !.change_pos = p, !.change_index = x, !.compose = "Err"]
            : p \in 0..n, x \in Indexes}
    \cup UNION {{[Cooperative EXCEPT !.change_pos = p, !.change_index = x,
                                     !.methods = m, !.embed = e]
                    : m \in (SUBSET Methods) \ {{}}, e \in {"Ok", "Err"}}
                : p \in 0..n, x \in Indexes}

\* runs that vary the beneficiaries, the descriptor and the collaborators
InitCompose ==
    /\ descr \in [variant : Variants, tweaks : {new_unfunded}]
    /\ last = NoCall
    /\ stock = ComposeStock
    /\ owned = Seals
    /\ debug_assertions \in BOOLEAN
    /\ invoices \in ComposeInvoices(descr.variant)
    /\ collab \in Collabs(Len(Beneficiaries(invoices)))
    /\ NothingCalled
    /\ fin = Compliant
    /\ NothingFinalized

SpecCompose == InitCompose /\ [][NextPay]_vars

(***************************************************************************)
(* transfer as one step on the invoices and the psbt of the run.           *)
(***************************************************************************)
\* the body of transfer; the HashMap of the invoices iterates in some order
Finalize ==
    \E order \in Orders(DOMAIN invoice_map(invoices).map) :
        LET f == transfer(descr, invoices, psbt, order)
        IN  /\ descr' = [descr EXCEPT !.tweaks = f.tweaks]
            /\ consumed' = consumed + f.consumed
            /\ tret' = f.ret
            /\ transfers' = f.transfers
            /\ pc' = "finalized"
            /\ UNCHANGED <<last, stock, owned, collab, debug_assertions, invoices>>
            /\ UNCHANGED <<ret, psbt, meta, sel, handed, composed, fin>>

\* transfer called on a psbt the caller brings
Transfer ==
    /\ pc = "signed"
    /\ Finalize

\* a pay that goes on to transfer whatever the composition returned
PayTransfer_Unchecked ==
    /\ pc = "returned"
    /\ Finalize

\* the second half of pay (112-115): transfer on the skeleton, if there is one
PayTransfer ==
    /\ pc = "returned"
    /\ ret = Ok
    /\ Finalize

\* the wallet's script on the Tapret keychain at index i, tagged as host
WalletHost(i) ==
    [Output(ScriptPubkey(TapretKey_derive(new_unfunded, Tapret, i)))
        EXCEPT !.tapret_host = TRUE]

\* a host whose script is not the wallet's
ForeignHost == [Output(AddrA) EXCEPT !.tapret_host = TRUE]

\* the psbts brought to transfer: no host, a host of the wallet or a foreign
\* one, in front of outputs paying A, or A and B
TransferPsbts ==
    {h \o b : h \in {<<>>, <<ForeignHost>>} \cup {<<WalletHost(i)>> : i \in Indexes},
              b \in {<<Output(AddrA)>>, <<Output(AddrA), Output(AddrB)>>}}

\* 1..MaxInvoices invoices, for either contract or for none, each to a
\* blinded seal or to the address A or B
TransferInvoices ==
    UNION {[1..n -> {[FullInvoice("c1", 1, b) EXCEPT !.contract = c]
                        : c \in Contracts \cup {None},
                          b \in {BlindedSeal("b1"), WitnessVout(AddrA),
                                 WitnessVout(AddrB)}}]
           : n \in 1..MaxInvoices}

\* the answers of the psbt and the inventory: the commit fails, or the
\* anchor has no tapret proof, or the commitment cannot be read, or the
\* consumption fails, or the transfer of "c1" cannot be built, or all is well
FinAnswers ==
    {[Compliant EXCEPT !.rgb_commit = "Err"],
     [Compliant EXCEPT !.has_tapret = FALSE],
     [Compliant EXCEPT !.tapret_commitment = "Err"],
     [Compliant EXCEPT !.consume_fascia = "Err"],
     [Compliant EXCEPT !.transfer_fails = {"c1"}],
     Compliant}

\* the descriptors of the runs: a plain one, a fresh TapretKey, and one
\* that has a tweak at the terminal (Tapret, 0)
Descriptors ==
    {[variant |-> "Wpkh", tweaks |-> new_unfunded],
     [variant |-> "TapretKey", tweaks |-> new_unfunded],
     [variant |-> "TapretKey", tweaks |-> Insert(new_unfunded, <<Tapret, 0>>, "mpc2")]}

\* runs of transfer on its own
InitTransfer ==
    /\ descr \in Descriptors
    /\ last = NoCall
    /\ stock = EmptyStock
    /\ owned = Seals
    /\ collab = Cooperative
    /\ debug_assertions = FALSE
    /\ invoices \in TransferInvoices
    /\ pc = "signed"
    /\ ret = NoRet
    /\ psbt \in TransferPsbts
    /\ meta = [change_vout |-> NoVout]
    /\ sel = <<>>
    /\ handed = NotHanded
    /\ composed = NotComposed
    /\ fin \in FinAnswers
    /\ NothingFinalized

NextTransfer == Transfer

SpecTransfer == InitTransfer /\ [][NextTransfer]_vars

\* the invoices of a pay: 1..MaxInvoices for "c1", each asking for 1, to a
\* blinded seal or to the address A, and single ones that fail the
\* validation or ask for something that is no amount
PayInvoices ==
    UNION {[1..n -> {FullInvoice("c1", 1, b)
                        : b \in {BlindedSeal("b1"), WitnessVout(AddrA)}}]
           : n \in 1..MaxInvoices}
    \cup {<<[FullInvoice("c1", 1, BlindedSeal("b1")) EXCEPT !.contract = None]>>,
          <<[FullInvoice("c1", 1, BlindedSeal("b1")) EXCEPT !.owned_state = Data]>>}

\* the answers to transfer in a pay: the anchor has a tapret proof when the
\* batch closes by tapret
PayAnswers ==
    {[f EXCEPT !.has_tapret = ("TapretFirst" \in collab.methods)] :
        f \in {Compliant, [Compliant EXCEPT !.consume_fascia = "Err"],
               [Compliant EXCEPT !.transfer_fails = {"c1"}]}}

\* runs of pay: construct_psbt_rgb, then transfer
InitPay ==
    /\ descr \in Descriptors
    /\ last = NoCall
    /\ stock = ComposeStock
    /\ owned = Seals
    /\ debug_assertions \in BOOLEAN
    /\ invoices \in PayInvoices
    /\ collab \in Collabs(Len(Beneficiaries(invoices)))
    /\ NothingCalled
    /\ fin \in PayAnswers
    /\ NothingFinalized

NextFull ==
    \/ ConstructPsbtRgb
    \/ PayTransfer

SpecPay == InitPay /\ [][NextFull]_vars

(***************************************************************************)
(* Runs of construct_psbt_rgb that vary what the invoices leave out.       *)
(***************************************************************************)
\* the time of the call; timestamps are 0, 1, 2
Now == 1

\* the interface with or without its defaults
ValidateIfaces ==
    {[IfaceRGB20 EXCEPT !.default_operation = o,
                        !.transitions = [op \in {"transfer"} |->
                                            [default_assignment |-> a]]]
        : o \in {None, "transfer"}, a \in {None, "assetOwner"}}

\* an invoice for 1 to a blinded seal, with any of its fields left out or
\* with an interface the stock does not know; a full one with an expiry in
\* the past or in the future
ValidateInvoice ==
    {Invoice(c, i, o, a, Amount(1), BlindedSeal("b1"))
        : c \in {None, "c1"}, i \in {None, "RGB20", "RGB21"},
          o \in {None, "transfer"}, a \in {None, "assetOwner"}}
    \cup {[FullInvoice("c1", 1, BlindedSeal("b1")) EXCEPT !.expiry = {e}]
            : e \in {Now - 1, Now + 1}}

ValidateInvoices == UNION {[1..n -> ValidateInvoice] : n \in 1..MaxInvoices}

InitValidate ==
    /\ descr = [variant |-> "TapretKey", tweaks |-> new_unfunded]
    /\ last = NoCall
    /\ stock \in {[ComposeStock EXCEPT !.iface = f] : f \in ValidateIfaces}
    /\ owned = Seals
    /\ collab \in {Cooperative, [Cooperative EXCEPT !.compose = "Err"]}
    /\ debug_assertions = FALSE
    /\ invoices \in ValidateInvoices
    /\ NothingCalled
    /\ fin = Compliant
    /\ NothingFinalized

SpecValidate == InitValidate /\ [][NextPay]_vars

(***************************************************************************)
(* Runs of construct_psbt_rgb that vary what the filter sees.              *)
(***************************************************************************)
\* "c1" has nothing, 1 or MaxAmount on each seal; the lookup of the
\* assignments fails for any of the outpoints
FilterStocks ==
    {[EmptyStock EXCEPT !.fungible["c1"] = f, !.unindexed = u]
        : f \in [Seals -> {<<>>, <<1>>, <<MaxAmount>>}], u \in SUBSET Seals}

\* one invoice for "c1", to a blinded seal
FilterInvoices == {<<FullInvoice("c1", a, BlindedSeal("b1"))>> : a \in Requests}

InitFilter ==
    /\ descr = [variant |-> "TapretKey", tweaks |-> new_unfunded]
    /\ last = NoCall
    /\ stock \in FilterStocks
    /\ owned \in SUBSET Seals
    /\ collab = Cooperative
    /\ debug_assertions = FALSE
    /\ invoices \in FilterInvoices
    /\ NothingCalled
    /\ fin = Compliant
    /\ NothingFinalized

SpecFilter == InitFilter /\ [][NextPay]_vars

(***************************************************************************)
(* Properties of the descriptor, checked under SpecDescr.                  *)
(***************************************************************************)
IsTapretKey == descr.variant = "TapretKey"

\* C1: add_tapret_tweak on a TapretKey whose table already has an entry at
\* the terminal returns TapTweakAlreadyAssigned carrying that terminal and
\* leaves the whole table as it was, whatever the new commitment is.
C1_OccupiedAddFails ==
    [][(IsTapretKey /\ last'.op = "add_tapret_tweak"
            /\ last'.terminal \in DOMAIN descr.tweaks)
        => (/\ last'.tag = "TapTweakAlreadyAssigned"
            /\ last'.err = last'.terminal
            /\ descr' = descr)]_vars

\* a second add at an assigned terminal, with a commitment that differs
C1_Witness ==
    /\ IsTapretKey
    /\ last.op = "add_tapret_tweak"
    /\ last.tag = "TapTweakAlreadyAssigned"
    /\ last.terminal \in DOMAIN descr.tweaks
    /\ descr.tweaks[last.terminal] # last.tweak

\* C2: add_tapret_tweak on a terminal with no entry succeeds, for every
\* terminal and commitment; afterwards the table maps the terminal to the
\* given commitment and every other entry is as before.
C2_VacantAddSucceeds ==
    [][(IsTapretKey /\ last'.op = "add_tapret_tweak"
            /\ last'.terminal \notin DOMAIN descr.tweaks)
        => (/\ last'.tag = "Ok"
            /\ DOMAIN descr'.tweaks = (DOMAIN descr.tweaks) \cup {last'.terminal}
            /\ descr'.tweaks[last'.terminal] = last'.tweak
            /\ \A x \in DOMAIN descr.tweaks : descr'.tweaks[x] = descr.tweaks[x])]_vars

\* a successful add on a non-commitment keychain, into a table with an entry
C2_Witness ==
    /\ IsTapretKey
    /\ last.op = "add_tapret_tweak"
    /\ last.tag = "Ok"
    /\ last.terminal[1] = External
    /\ last.tweak = "mpc2"
    /\ Cardinality(DOMAIN descr.tweaks) = 2

\* C3: the tweak table only grows: an assigned terminal keeps its
\* commitment in every later state, no entry is removed or replaced.
C3_TableOnlyGrows ==
    [][\A t \in DOMAIN descr.tweaks :
          t \in DOMAIN descr'.tweaks /\ descr'.tweaks[t] = descr.tweaks[t]]_vars

\* operations went on after the table got its entries
C3_Witness ==
    /\ Cardinality(DOMAIN descr.tweaks) = 2
    /\ last.op \in {"derive", "seal_close_method"}

DeriveNow(t) == RgbDescr_derive(descr, t[1], t[2])

AddedAt(t) == last.op = "add_tapret_tweak" /\ last.tag = "Ok" /\ last.terminal = t

Returned == pc = "returned"

\* the seals whose state of the contract the filter shows
Visible(c) == {s \in Seals : s \in owned /\ stock.fungible[c][s] # <<>>}

\* the per-seal sum
SealSum(c, s) == Sum(stock.fungible[c][s])

RECURSIVE TotalOf(_, _)
\* the per-seal sums of a set of seals, added up
TotalOf(c, S) ==
    IF S = {} THEN 0
    ELSE LET s == CHOOSE x \in S : TRUE
         IN  SealSum(c, s) + TotalOf(c, S \ {s})

\* the invoices the selection ran for
Selected == 1..Len(sel)

RequestOf(i) == invoices[i].owned_state.amount

ContractOf(i) == invoices[i].contract

\* the seals taken for invoice i before its k-th
Prefix(i, k) == {sel[i][j] : j \in 1..(k - 1)}

\* C6: when the visible per-seal sums add up to at least A, the selected
\* seals total at least A, and when more than one seal was selected the
\* total without the last-added one, the smallest selected, is below A.
C6_SelectionComplete ==
    Returned =>
        \A i \in Selected :
            LET c == ContractOf(i)
                n == Len(sel[i])
                chosen == Range(sel[i])
            IN  TotalOf(c, Visible(c)) >= RequestOf(i) =>
                    /\ Cardinality(chosen) = n
                    /\ TotalOf(c, chosen) >= RequestOf(i)
                    /\ n > 1 =>
                        /\ TotalOf(c, chosen \ {sel[i][n]}) < RequestOf(i)
                        /\ \A s \in chosen : SealSum(c, sel[i][n]) <= SealSum(c, s)

\* two seals were needed, and they carry more than was asked for
C6_Witness ==
    /\ Returned
    /\ \E i \in Selected :
          /\ Len(sel[i]) > 1
          /\ TotalOf(ContractOf(i), Range(sel[i])) > RequestOf(i)

\* C7 as stated: when the visible per-seal sums add up to less than A, the
\* call fails with InsufficientState, construct_psbt is never handed the
\* short selection, and no skeleton is returned.
C7_Claim ==
    Returned =>
        \A i \in 1..Len(invoices) :
            TotalOf(ContractOf(i), Visible(ContractOf(i))) < RequestOf(i) =>
                /\ ret = Err("InsufficientState")
                /\ ~handed.called
                /\ psbt = <<>>

\* C8: the selected seals are the first k in descending order of per-seal
\* sum, k the smallest count whose running total reaches A, or all of them
\* when the total never reaches A; no seal is selected while a seal with a
\* strictly larger sum is left out.
C8_GreedyLargestFirst ==
    Returned =>
        \A i \in Selected :
            LET c == ContractOf(i)
                n == Len(sel[i])
                chosen == Range(sel[i])
            IN  /\ chosen \subseteq Visible(c)
                /\ Cardinality(chosen) = n
                /\ \A j \in 1..n, k \in 1..n :
                      j < k => SealSum(c, sel[i][j]) >= SealSum(c, sel[i][k])
                /\ \A s \in chosen, t \in Visible(c) \ chosen :
                      SealSum(c, t) <= SealSum(c, s)
                /\ \A k \in 1..n : TotalOf(c, Prefix(i, k)) < RequestOf(i)
                /\ TotalOf(c, chosen) >= RequestOf(i) \/ chosen = Visible(c)

\* a larger seal alone covers the request a smaller one could not
C8_Witness ==
    /\ Returned
    /\ \E i \in Selected :
          LET c == ContractOf(i)
          IN  /\ Len(sel[i]) = 1
              /\ \E t \in Visible(c) \ Range(sel[i]) :
                    /\ SealSum(c, t) < RequestOf(i)
                    /\ SealSum(c, t) < SealSum(c, sel[i][1])

(***************************************************************************)
(* Properties of the skeleton, checked under SpecCompose.                  *)
(***************************************************************************)
\* the batch closes seals by the taproot method
UsesTapret == "TapretFirst" \in collab.methods

\* the positions of the outputs tagged as taproot host
Hosts == {k \in 1..Len(psbt) : psbt[k].tapret_host}

\* the positions of the outputs that host no commitment of either method
NonHosts == {k \in 1..Len(psbt) : ~psbt[k].tapret_host /\ ~psbt[k].opret_host}

ChangeScript ==
    ScriptPubkey(RgbDescr_derive(descr, for_method(RgbDescr_seal_close_method(descr)),
                                 collab.change_index))

\* the outputs were constructed with a change output and reordered
Reordered == Returned /\ handed.called /\ collab.construct = "Ok" /\ collab.change

\* C10: when construct_psbt reports a change output, then after the
\* reordering meta.change_vout is the index of the first output whose script
\* is the change script, and that index is the one given to stock.compose.
C10_ChangeIndexResolved ==
    Reordered =>
        /\ \E v \in meta.change_vout :
              /\ v + 1 \in 1..Len(psbt)
              /\ psbt[v + 1].script = ChangeScript
              /\ \A k \in 1..v : psbt[k].script # ChangeScript
        /\ composed.called => composed.change_vout = meta.change_vout

\* the reordering moved the change output from behind a beneficiary to the
\* front, and the batch was composed with the new index
C10_Witness ==
    /\ Reordered
    /\ ret = Ok
    /\ composed.called
    /\ collab.change_pos = 1
    /\ meta.change_vout = Some(0)
    /\ composed.change_vout = Some(0)

(***************************************************************************)
(* Properties of transfer, checked under SpecTransfer and SpecPay.         *)
(***************************************************************************)
TransferDone == pc = "finalized"

\* C11 as stated: on every path where transfer returns an error, the
\* fascia has not been consumed into the inventory.
C11_Claim ==
    (TransferDone /\ tret.tag = "Err") => consumed = 0

\* C12: a successful transfer has consumed exactly one fascia, so has a
\* successful pay; a pay whose composition fails consumes none and never
\* reaches transfer; no run consumes more than one.
C12_ConsumedOnce ==
    /\ (TransferDone /\ tret = Ok) => consumed = 1
    /\ TransferDone => ret = Ok
    /\ (Returned /\ ret # Ok) => (consumed = 0 /\ tret = NoRet /\ transfers = <<>>)
    /\ consumed <= 1

\* a pay went through, with a batch that closes by opret only
C12_Witness ==
    /\ TransferDone
    /\ ret = Ok
    /\ tret = Ok
    /\ consumed = 1
    /\ ~fin.has_tapret
    /\ Len(transfers) = 1

\* the contract ids of the invoices
InvoiceContracts == {invoices[k].contract : k \in 1..Len(invoices)}

\* the invoices of a contract with a beneficiary of one kind, in call order
InvoicesOf(c, kind) ==
    SelectSeq(invoices, LAMBDA i : i.contract = c /\ i.beneficiary.kind = kind)

\* the output index an address is paid at, the first output with its script
PaidAt(script) == CHOOSE v \in Position(WithScript(psbt, script)) : TRUE

\* C13: a successful transfer over invoices that span K contract ids
\* returns K transfers, one per contract id, and the transfer of a contract
\* holds the blinded seals and the witness seals of exactly the invoices of
\* that contract.
C13_Grouping ==
    (TransferDone /\ tret = Ok) =>
        /\ Len(transfers) = Cardinality(InvoiceContracts)
        /\ {transfers[k].contract_id : k \in 1..Len(transfers)} = InvoiceContracts
        /\ \A k \in 1..Len(transfers) :
              LET c == transfers[k].contract_id
                  b == InvoicesOf(c, "BlindedSeal")
                  w == InvoicesOf(c, "WitnessVout")
              IN  /\ transfers[k].beneficiary1 =
                         [j \in 1..Len(b) |-> b[j].beneficiary.seal]
                  /\ Len(transfers[k].beneficiary2) = Len(w)
                  /\ \A j \in 1..Len(w) :
                        transfers[k].beneficiary2[j].vout
                            = PaidAt(w[j].beneficiary.script)

\* two invoices for two contracts, paying different addresses: two transfers
C13_Witness ==
    /\ TransferDone
    /\ tret = Ok
    /\ Len(invoices) = 2
    /\ Len(transfers) = 2
    /\ \E k \in 1..2 :
          /\ Len(transfers[k].beneficiary2) = 1
          /\ transfers[k].beneficiary2 # transfers[3 - k].beneficiary2

\* the terminal transfer recovers from the host output of the psbt
Recovered == UNION {terminal_derivation(psbt[v + 1]) : v \in dbc_output(psbt)}

\* transfer gets as far as adding a tweak, at a terminal that has one
Collision ==
    /\ fin.rgb_commit = "Ok"
    /\ fin.has_tapret
    /\ fin.tapret_commitment # "Err"
    /\ \E t \in Recovered : t \in DOMAIN descr.tweaks

\* C14: when transfer recovers a terminal that already has an entry in the
\* tweak table, it fails with MultipleTweaks, the table stays as it was and
\* no fascia is consumed.
C14_CollisionSurfaced ==
    [][(IsTapretKey /\ pc = "signed" /\ pc' = "finalized" /\ Collision)
        => (/\ tret' = Err("MultipleTweaks")
            /\ descr' = descr
            /\ consumed' = consumed
            /\ transfers' = <<>>)]_vars

\* a transfer that ran into the tweak of an earlier one, with a commitment
\* that differs from the one recorded
C14_Witness ==
    /\ IsTapretKey
    /\ TransferDone
    /\ Collision
    /\ tret = Err("MultipleTweaks")
    /\ descr.tweaks[<<Tapret, 0>>] = "mpc2"
    /\ fin.tapret_commitment = "mpc1"

(***************************************************************************)
(* Properties of the validation, checked under SpecValidate.               *)
(***************************************************************************)
\* the stock knows the interface and the contract of the invoice
Known(inv) == inv.iface = stock.iface.name /\ inv.contract \in DOMAIN stock.fungible

\* the invoice names no operation and the interface has no default
LacksOperation(inv) == inv.operation = None /\ stock.iface.default_operation = None

\* the operation the invoice is for
Operation(inv) ==
    IF inv.operation # None THEN inv.operation ELSE stock.iface.default_operation

\* the invoice names no assignment and its operation has no default
LacksAssignment(inv) ==
    /\ inv.assignment = None
    /\ \/ Operation(inv) \notin DOMAIN stock.iface.transitions
       \/ stock.iface.transitions[Operation(inv)].default_assignment = None

\* nothing was enumerated for invoice i, no transaction was constructed and
\* no skeleton is there
StoppedAt(i) ==
    /\ Len(sel) = i - 1
    /\ ~handed.called
    /\ ~composed.called
    /\ psbt = <<>>

\* C15: for the first invoice that fails the validation, a missing
\* contract id gives NoContract, else a missing interface NoIface, else a
\* missing operation without default NoOperation, else a missing
\* assignment without default NoAssignment; the fungible state of that
\* invoice is not enumerated, no transaction is constructed and no skeleton
\* is returned.
C15_ValidationFirst ==
    Returned =>
        \A i \in 1..Len(invoices) :
            LET inv == invoices[i]
            IN  (\A j \in 1..(i - 1) : CheckInvoice(invoices[j]) = "Ok") =>
                    /\ inv.contract = None
                          => (ret = Err("NoContract") /\ StoppedAt(i))
                    /\ (inv.contract # None /\ inv.iface = None)
                          => (ret = Err("NoIface") /\ StoppedAt(i))
                    /\ (inv.contract # None /\ inv.iface # None /\ Known(inv)
                            /\ LacksOperation(inv))
                          => (ret = Err("NoOperation") /\ StoppedAt(i))
                    /\ (inv.contract # None /\ inv.iface # None /\ Known(inv)
                            /\ ~LacksOperation(inv) /\ LacksAssignment(inv))
                          => (ret = Err("NoAssignment") /\ StoppedAt(i))

\* the second invoice lacks everything, after a first one that was selected for
C15_Witness ==
    /\ Returned
    /\ Len(invoices) = 2
    /\ Len(sel) = 1
    /\ sel[1] # <<>>
    /\ invoices[2].contract = None
    /\ invoices[2].iface = None
    /\ invoices[2].operation = None
    /\ invoices[2].assignment = None
    /\ ret = Err("NoContract")

\* the expiry of the invoice lies in the past
Expired(inv) == \E e \in inv.expiry : e < Now

\* C16 as stated: a call with an invoice whose expiry lies in the past, the
\* invoices being valid otherwise, returns InvoiceExpired and no skeleton.
C16_Claim ==
    (/\ Returned
     /\ \E i \in 1..Len(invoices) : Expired(invoices[i])
     /\ \A i \in 1..Len(invoices) : CheckInvoice(invoices[i]) = "Ok")
        => (ret = Err("InvoiceExpired") /\ psbt = <<>>)

(***************************************************************************)
(* Properties of the dispatch and of pay, under SpecDescr and SpecPay.     *)
(***************************************************************************)
\* C17: add_tapret_tweak through RgbDescr has, on the TapretKey variant,
\* the result and the table effect of TapretKey's own add_tapret_tweak; on
\* the Wpkh variant it panics: it returns neither an error nor success, the
\* table is untouched and nothing runs afterwards.
C17_DispatchAdd ==
    [][/\ last.tag # "panic"
       /\ last'.op = "add_tapret_tweak" =>
             LET direct == TapretKey_add_tapret_tweak(descr.tweaks, last'.terminal,
                                                      last'.tweak)
             IN  /\ descr.variant = "TapretKey" =>
                       /\ last'.tag = direct.tag
                       /\ last'.tag \in {"Ok", "TapTweakAlreadyAssigned"}
                       /\ descr'.tweaks = direct.tweaks
                 /\ descr.variant = "Wpkh" =>
                       /\ last'.tag = "panic"
                       /\ descr' = descr]_vars

\* the plain variant was asked to add a tweak
C17_Witness ==
    /\ descr.variant = "Wpkh"
    /\ last.op = "add_tapret_tweak"
    /\ last.tag = "panic"
    /\ descr.tweaks = new_unfunded

\* C18: when construct_psbt_rgb returns an error, the step has changed
\* neither the descriptor nor the inventory, and the caller has no skeleton:
\* pay stops there, transfer is not run and nothing is consumed.
C18_FailedCompositionNoEffect ==
    [][ret'.tag = "Err" =>
          /\ descr' = descr
          /\ stock' = stock
          /\ owned' = owned
          /\ consumed' = 0
          /\ pc' = "returned"
          /\ tret' = NoRet
          /\ transfers' = <<>>]_vars

\* the embedding failed on a skeleton that had its outputs, on a descriptor
\* with a tweak
C18_Witness ==
    /\ Returned
    /\ ret = Err("Embed")
    /\ Len(psbt) >= 2
    /\ composed.called
    /\ descr.tweaks # new_unfunded
    /\ tret = NoRet
    /\ consumed = 0

\* the closing method of a variant, and the keychain of its change
VariantMethod == IF descr.variant = "Wpkh" THEN "OpretFirst" ELSE "TapretFirst"

VariantKeychain == IF descr.variant = "Wpkh" THEN Rgb ELSE Tapret

\* C19: the descriptor's closing method is the variant's (Wpkh: OpretFirst,
\* TapretKey: TapretFirst) whatever tweaks it has, and no step changes it;
\* construct_psbt is handed the keychain of that method (Rgb=9 or
\* Tapret=10); for_method maps every method to Rgb or Tapret, never to
\* External or Internal.
C19_ChangeKeychain ==
    /\ [](/\ RgbDescr_seal_close_method(descr) = VariantMethod
          /\ handed.called => handed.change_keychain = {VariantKeychain}
          /\ composed.called => composed.method = VariantMethod
          /\ \A m \in Methods : for_method(m) \in {Rgb, Tapret}
          /\ for_method("OpretFirst") = Rgb
          /\ for_method("TapretFirst") = Tapret)
    /\ [][RgbDescr_seal_close_method(descr') = RgbDescr_seal_close_method(descr)]_vars

\* a pay on a TapretKey that had a tweak and got another one
C19_Witness ==
    /\ TransferDone
    /\ tret = Ok
    /\ IsTapretKey
    /\ Cardinality(DOMAIN descr.tweaks) = 2
    /\ handed.change_keychain = {Tapret}

\* C20: derive leaves the tweak table alone and returns what the table
\* gives for its terminal; while the table is unchanged derive returns the
\* same script at every terminal; an add_tapret_tweak at T, successful or
\* not, leaves derive at every terminal other than T unchanged.
C20_DerivePureAddLocal ==
    [][/\ last'.op = "derive" =>
             /\ descr' = descr
             /\ last'.script = DeriveNow(last'.terminal)
       /\ descr'.tweaks = descr.tweaks =>
             \A t \in Terminals :
                 RgbDescr_derive(descr', t[1], t[2]) = DeriveNow(t)
       /\ last'.op = "add_tapret_tweak" =>
             \A t \in Terminals \ {last'.terminal} :
                 RgbDescr_derive(descr', t[1], t[2]) = DeriveNow(t)]_vars

\* a tweak was added on keychain Rgb at the index of a Tapret terminal that
\* has a tweak of its own
C20_Witness ==
    /\ IsTapretKey
    /\ last.op = "add_tapret_tweak"
    /\ last.tag = "Ok"
    /\ last.terminal = <<Rgb, 0>>
    /\ <<Tapret, 0>> \in DOMAIN descr.tweaks
    /\ descr.tweaks[<<Tapret, 0>>] # last.tweak

(***************************************************************************)
(* Properties of the hosts and the indexes, checked under SpecCompose.     *)
(***************************************************************************)
\* the outputs as construct_psbt made them, before the tagging and the sort
Built ==
    construct_psbt(Beneficiaries(invoices),
                   for_method(RgbDescr_seal_close_method(descr)))

\* the positions in construction order of the taproot outputs whose script
\* is no beneficiary's
Candidates ==
    {k \in 1..Len(Built) : /\ is_p2tr(Built[k].script)
                           /\ Built[k].script \notin beneficiary_script(invoices)}

\* construct_psbt gave the outputs
Constructed == Returned /\ handed.called /\ collab.construct = "Ok"

\* C21: at most one output is tagged as taproot host; it is the first
\* output in construction order that is taproot-shaped and has no
\* beneficiary's script; no output with a beneficiary's script is tagged;
\* without such an output none is tagged, and a batch that closes by
\* tapret is then refused with TapretRequired.
C21_HostTagging ==
    Constructed =>
        /\ Cardinality(Hosts) <= 1
        /\ \A h \in Hosts : psbt[h].script \notin beneficiary_script(invoices)
        /\ \A k \in 1..Len(psbt) :
              psbt[k].script \in beneficiary_script(invoices) => ~psbt[k].tapret_host
        /\ Candidates # {} =>
              LET first == CHOOSE k \in Candidates : \A j \in Candidates : k <= j
              IN  /\ Cardinality(Hosts) = 1
                  /\ \A h \in Hosts : psbt[h].script = Built[first].script
        /\ Candidates = {} =>
              /\ Hosts = {}
              /\ (composed.called /\ collab.compose = "Ok" /\ UsesTapret)
                    => ret = Err("TapretRequired")

\* the taproot address A was constructed in front of the change output; the
\* change output is the host
C21_Witness ==
    /\ Constructed
    /\ ret = Ok
    /\ collab.change_pos >= 1
    /\ Built[1].script = AddrA
    /\ Hosts = {1}
    /\ psbt[1].script = ChangeScript
    /\ \E k \in 2..Len(psbt) : psbt[k].script = AddrA /\ ~psbt[k].tapret_host

\* C22 as stated: every index recorded for a witness beneficiary designates
\* an output with that beneficiary's script, each beneficiary script has
\* its index, and no beneficiary index given to stock.compose is the
\* change index.
C22_Claim ==
    composed.called =>
        /\ \A v \in composed.beneficiary_vout :
              /\ v + 1 \in 1..Len(psbt)
              /\ psbt[v + 1].script \in beneficiary_script(invoices)
        /\ \A sc \in beneficiary_script(invoices) :
              \E v \in composed.beneficiary_vout : psbt[v + 1].script = sc
        /\ composed.beneficiary_vout \cap composed.change_vout = {}

\* the positions of the outputs tagged as opret host
OpretHosts == {k \in 1..Len(psbt) : psbt[k].opret_host}

\* the batch was composed
Composed == Returned /\ composed.called /\ collab.compose = "Ok"

\* C23: exactly when the batch closes by opret, one op_return output
\* tagged as opret host is appended, behind all outputs of the reordered
\* skeleton; otherwise nothing is appended; the change index and the
\* beneficiary indexes given to stock.compose designate the outputs with
\* the change script and the beneficiary scripts in the skeleton as it is
\* at the end.
C23_OpretHostAppended ==
    Composed =>
        /\ "OpretFirst" \in collab.methods =>
              /\ Len(psbt) = Len(Built) + 1
              /\ OpretHosts = {Len(psbt)}
              /\ psbt[Len(psbt)].script = op_return
              /\ ~psbt[Len(psbt)].tapret_host
        /\ "OpretFirst" \notin collab.methods =>
              /\ Len(psbt) = Len(Built)
              /\ OpretHosts = {}
        /\ \A v \in composed.change_vout :
              /\ v + 1 \in 1..Len(Built)
              /\ psbt[v + 1].script = ChangeScript
              /\ ~psbt[v + 1].opret_host
        /\ \A v \in composed.beneficiary_vout :
              /\ v + 1 \in 1..Len(Built)
              /\ psbt[v + 1].script \in beneficiary_script(invoices)
              /\ ~psbt[v + 1].opret_host
        /\ meta.change_vout = composed.change_vout

\* a skeleton with a change output, two beneficiaries and the opret host
C23_Witness ==
    /\ Composed
    /\ ret = Ok
    /\ collab.methods = {"OpretFirst"}
    /\ Len(psbt) = 4
    /\ OpretHosts = {4}
    /\ composed.change_vout # {}
    /\ Cardinality(composed.beneficiary_vout) = 2

(***************************************************************************)
(* Properties of the seals and of the tweak in transfer (SpecTransfer).    *)
(***************************************************************************)
\* the invoices that pay an address no output of the psbt pays
Unpaid ==
    {k \in 1..Len(invoices) :
        /\ invoices[k].beneficiary.kind = "WitnessVout"
        /\ WithScript(psbt, invoices[k].beneficiary.script) = {}}

\* transfer got as far as building the transfers
BuildReached == TransferDone /\ consumed = 1 /\ None \notin InvoiceContracts

\* C24: in a successful transfer every witness beneficiary is the seal at
\* the first output whose script is the beneficiary's, closed by the
\* descriptor's method, and every blinded seal is in its contract's
\* transfer as the invoice gave it; when an address has no output, transfer
\* fails, with NoBeneficiaryOutput unless the build of another contract's
\* transfer failed first.
C24_BeneficiaryResolution ==
    /\ (TransferDone /\ tret = Ok) =>
          /\ Unpaid = {}
          /\ \A k \in 1..Len(transfers) :
                LET c == transfers[k].contract_id
                    b == InvoicesOf(c, "BlindedSeal")
                    w == InvoicesOf(c, "WitnessVout")
                IN  /\ Len(transfers[k].beneficiary1) = Len(b)
                    /\ \A j \in 1..Len(b) :
                          transfers[k].beneficiary1[j] = b[j].beneficiary.seal
                    /\ Len(transfers[k].beneficiary2) = Len(w)
                    /\ \A j \in 1..Len(w) :
                          LET seal == transfers[k].beneficiary2[j]
                          IN  /\ seal.method = RgbDescr_seal_close_method(descr)
                              /\ seal.vout + 1 \in 1..Len(psbt)
                              /\ psbt[seal.vout + 1].script = w[j].beneficiary.script
                              /\ \A m \in 1..seal.vout :
                                    psbt[m].script # w[j].beneficiary.script
    /\ (BuildReached /\ Unpaid # {}) =>
          /\ tret.tag = "Err"
          /\ transfers = <<>>
          /\ fin.transfer_fails = {} => tret = Err("NoBeneficiaryOutput")

\* the address A is paid by two outputs, the seal is at the first; a
\* blinded seal went along
C24_Witness ==
    /\ TransferDone
    /\ tret = Ok
    /\ Cardinality(WithScript(psbt, AddrA)) = 2
    /\ \E k \in 1..Len(transfers) :
          /\ Len(transfers[k].beneficiary2) = 1
          /\ transfers[k].beneficiary2[1].vout = 0
          /\ transfers[k].beneficiary1 = <<"b1">>

\* a later step of transfer failed: the consumption, the grouping of the
\* invoices or the build of a transfer
LateFailure ==
    /\ tret.tag = "Err"
    /\ tret.err \in {"Stock", "NoContract", "NoBeneficiaryOutput"}

\* C26: transfer records the tweak before it consumes the fascia and does
\* not take it back: when the consumption or a later step fails after a
\* tweak was recovered, transfer returns the error and the tweak table has
\* the new entry, at a terminal that had none before the call.
C26_TweakKeptOnFailure ==
    [][(/\ IsTapretKey
        /\ pc = "signed"
        /\ pc' = "finalized"
        /\ fin.has_tapret
        /\ LateFailure')
        => \E t \in Recovered :
              /\ t \notin DOMAIN descr.tweaks
              /\ t \in DOMAIN descr'.tweaks
              /\ descr'.tweaks[t] = fin.tapret_commitment
              /\ DOMAIN descr'.tweaks = (DOMAIN descr.tweaks) \cup {t}]_vars

\* the consumption failed, nothing was consumed, and the fresh descriptor
\* has the tweak
C26_Witness ==
    /\ IsTapretKey
    /\ TransferDone
    /\ fin.consume_fascia = "Err"
    /\ tret = Err("Stock")
    /\ consumed = 0
    /\ DOMAIN descr.tweaks = {<<Tapret, 0>>}
    /\ descr.tweaks[<<Tapret, 0>>] = "mpc1"

(***************************************************************************)
(* Properties of the filter, checked under SpecFilter.                     *)
(***************************************************************************)
\* the seals that pass both tests of the filter for the contract
Passing(c) ==
    {s \in Seals : /\ s \in owned
                   /\ s \notin stock.unindexed
                   /\ stock.fungible[c][s] # <<>>}

\* C25: every selected seal, and every outpoint handed to construct_psbt,
\* is owned by the wallet and has an assignment of the invoice's contract
\* that the inventory reports without error; a seal that fails a test or
\* whose lookup fails is never selected; a request above zero selects a
\* seal whenever one passes both tests.
C25_FilterConjunction ==
    Returned =>
        /\ \A i \in Selected :
              /\ Range(sel[i]) \subseteq Passing(ContractOf(i))
              /\ (RequestOf(i) > 0 /\ Passing(ContractOf(i)) # {}) => sel[i] # <<>>
        /\ \A s \in handed.prev_outpoints :
              \E i \in Selected : s \in Passing(ContractOf(i))

\* the request is above what the selected seal carries, and the other
\* seal, which the wallet owns and which carries more, was passed over
\* because its lookup fails
C25_Witness ==
    /\ Returned
    /\ handed.called
    /\ \E s \in Seals, t \in Seals :
          /\ sel = <<<<s>>>>
          /\ SealSum("c1", s) < RequestOf(1)
          /\ SealSum("c1", s) < SealSum("c1", t)
          /\ t \in owned
          /\ t \in stock.unindexed

(***************************************************************************)
(* Properties of the selection over several invoices (SpecSelect).         *)
(***************************************************************************)
\* the sum of the amounts the invoices ask for
RECURSIVE Requested(_)
Requested(n) == IF n = 0 THEN 0 ELSE RequestOf(n) + Requested(n - 1)

\* C27: the selection of an invoice is what the invoice selects on its own
\* against the visible state, whatever the invoices before it took: two
\* invoices of one contract asking for the same amount select the same
\* seals; construct_psbt is handed the union of the selections as a set.
C27_SelectionsIndependent ==
    (Returned /\ handed.called) =>
        /\ \A i \in Selected : sel[i] = SelectSeals(invoices[i])
        /\ \A i \in Selected, j \in Selected :
              (ContractOf(i) = ContractOf(j) /\ RequestOf(i) = RequestOf(j))
                  => sel[i] = sel[j]
        /\ \A i \in Selected, j \in Selected :
              (ContractOf(i) = ContractOf(j) /\ RequestOf(i) <= RequestOf(j))
                  => Range(sel[i]) \subseteq Range(sel[j])
        /\ handed.prev_outpoints = UNION {Range(sel[i]) : i \in Selected}

\* two invoices, each covered by the one seal both select; the seal
\* carries less than the two ask for together
C27_Witness ==
    /\ Returned
    /\ handed.called
    /\ ret = Ok
    /\ Len(invoices) = 2
    /\ \E s \in Seals :
          /\ sel = <<<<s>>, <<s>>>>
          /\ handed.prev_outpoints = {s}
          /\ RequestOf(1) <= SealSum("c1", s)
          /\ RequestOf(2) <= SealSum("c1", s)
          /\ SealSum("c1", s) < Requested(2)

\* C28: an invoice that asks for Amount(0) selects no seal, whatever state
\* is visible; the call goes on, and when every invoice asks for 0
\* construct_psbt is handed no previous outpoint.
C28_ZeroSelectsNothing ==
    Returned =>
        /\ \A i \in Selected : RequestOf(i) = 0 => sel[i] = <<>>
        /\ (\A i \in 1..Len(invoices) : RequestOf(i) = 0) =>
              /\ Len(sel) = Len(invoices)
              /\ handed.called
              /\ handed.prev_outpoints = {}

\* a call for Amount(0) alone, with state on every seal, went through
C28_Witness ==
    /\ Returned
    /\ ret = Ok
    /\ Len(invoices) = 1
    /\ RequestOf(1) = 0
    /\ Visible("c1") = Seals
    /\ sel = <<<<>>>>
    /\ handed.called
    /\ handed.prev_outpoints = {}

====
